---- MODULE Spec2Model ----
(***************************************************************************)
(* Model of pocl's ImplicitLoopBarriers loop pass                          *)
(* (lib/llvmopencl/ImplicitLoopBarriers.cc).                               *)
(*                                                                         *)
(* The state is one function's IR (per basic block the ordered list of     *)
(* instructions, the last one being the terminator that carries the CFG    *)
(* edges), the loop forest LoopInfo reports for it, the answers of the     *)
(* kernel classifier and of the VariableUniformityAnalysis, and the        *)
(* outcome of the last runOnLoop call.  A second specification lets a      *)
(* work-group execute the function after a successful call.                *)
(***************************************************************************)
EXTENDS Integers, Sequences, FiniteSets, TLC

VARIABLES
  ir,         \* block -> sequence of instructions (the function body)
  loopInfo,   \* loop id -> [blocks, sub]; blocks is ordered, header first
  isKernel,   \* Workgroup::isKernelToProcess of the function
  uniformB,   \* blocks VariableUniformityAnalysis reports uniform
  uniformV,   \* branch conditions (named by their block) reported uniform
  valid,      \* analyses the pass manager currently holds as valid
  nextId,     \* identity of the next instruction created
  calls,      \* number of runOnLoop calls made by the driver
  lastL,      \* loop of the last call (NULL before the first)
  result,     \* return value of the last call: "none", "true", "false", "fault"
  log,        \* the checks and queries the last call evaluated, in order
  before,     \* ir as it was when the last call started
  inserted,   \* markers created by the pass: [id, loop]
  phase,      \* "compile" or "run"
  wi,         \* work-item -> [pc, iter, cnt]
  cur,        \* the work-item currently executing
  shared      \* group-wide value of a uniform condition: <<block, iter>> -> 0|1|2

vars == <<ir, loopInfo, isKernel, uniformB, uniformV, valid, nextId, calls,
          lastL, result, log, before, inserted, phase, wi, cur, shared>>

NULL == 0

\* ---- bounds ----
MaxPhi == 1
MaxOps == 1
MaxCalls == 2
MaxIter == 2
NumWI == 2

\* ---- instructions ----
Phi(id) == [id |-> id, kind |-> "phi", succs |-> <<>>, cond |-> NULL]
Op(id) == [id |-> id, kind |-> "op", succs |-> <<>>, cond |-> NULL]
Barrier(id) == [id |-> id, kind |-> "barrier", succs |-> <<>>, cond |-> NULL]
Term(id, k, s, c) == [id |-> id, kind |-> k, succs |-> s, cond |-> c]

\* isa<Barrier>(j)
isaBarrier(i) == i.kind = "barrier"

\* ---- loop shapes: CFG successor lists and the loop forest ----
Loop(bs, sub) == [blocks |-> bs, sub |-> sub]

Shapes ==
  { \* single-block loop: the header is the exiting block
    [succ |-> << <<2>>, <<2, 3>>, <<>>, <<>>, <<>> >>,
     loops |-> << Loop(<<2>>, {}) >>],
    \* header, then a latch that is the exiting block
    [succ |-> << <<2>>, <<3>>, <<2, 4>>, <<>>, <<>> >>,
     loops |-> << Loop(<<2, 3>>, {}) >>],
    \* the header exits, the other block is the latch
    [succ |-> << <<2>>, <<3, 4>>, <<2>>, <<>>, <<>> >>,
     loops |-> << Loop(<<2, 3>>, {}) >>],
    \* two exiting blocks
    [succ |-> << <<2>>, <<3, 4>>, <<2, 4>>, <<>>, <<>> >>,
     loops |-> << Loop(<<2, 3>>, {}) >>],
    \* loop 1 encloses loop 2
    [succ |-> << <<2>>, <<3>>, <<3, 4>>, <<2, 5>>, <<>> >>,
     loops |-> << Loop(<<2, 3, 4>>, {2}), Loop(<<3>>, {}) >>],
    \* the header branches to the exiting block 3 or past it to the latch 4
    [succ |-> << <<2>>, <<3, 4>>, <<4, 5>>, <<2>>, <<>> >>,
     loops |-> << Loop(<<2, 3, 4>>, {}) >>],
    \* the header branches around block 3; latch 4 is the exiting block
    [succ |-> << <<2>>, <<3, 4>>, <<4>>, <<2, 5>>, <<>> >>,
     loops |-> << Loop(<<2, 3, 4>>, {}) >>],
    \* no exiting block
    [succ |-> << <<2>>, <<2>>, <<>>, <<>>, <<>> >>,
     loops |-> << Loop(<<2>>, {}) >>],
    \* a loop reported without blocks, hence without header
    [succ |-> << <<2>>, <<2, 3>>, <<>>, <<>>, <<>> >>,
     loops |-> << Loop(<<>>, {}) >>],
    \* the exiting block leaves by an unconditional branch
    [succ |-> << <<2>>, <<2, 3>>, <<4>>, <<>>, <<>> >>,
     loops |-> << Loop(<<2, 3>>, {}) >>],
    \* the loop is entered under a branch of the entry block
    [succ |-> << <<2, 4>>, <<3>>, <<2, 4>>, <<>>, <<>> >>,
     loops |-> << Loop(<<2, 3>>, {}) >> ] }

Range(s) == {s[i] : i \in DOMAIN s}

Headers(sh) == {sh.loops[l].blocks[1] : l \in {k \in DOMAIN sh.loops : sh.loops[k].blocks # <<>>}}

TwoWay(sh) == {b \in DOMAIN sh.succ : Len(sh.succ[b]) = 2}

\* One basic block: phis (in loop headers), a marker already present when
\* pre = b, plain instructions, and the terminator.
MkBlock(sh, b, nPhi, nOps, pre, tk) ==
  LET phis == IF b \in Headers(sh) THEN [j \in 1..nPhi |-> Phi(10 * b + j)] ELSE <<>>
      mark == IF pre = b THEN <<Barrier(10 * b + 9)>> ELSE <<>>
      ops == [j \in 1..nOps |-> Op(10 * b + 4 + j)]
      s == sh.succ[b]
      k == IF Len(s) = 0 THEN "ret" ELSE IF Len(s) = 1 THEN "br" ELSE tk[b]
      c == IF k = "condbr" THEN b ELSE NULL
  IN phis \o mark \o ops \o <<Term(10 * b, k, s, c)>>

\* ---- LoopInfo and basic-block queries used by the pass ----
BlocksOf(L) == Range(loopInfo[L].blocks)

\* L->getHeader(): the first block of the loop, NULL for a loop without blocks
getHeader(L) == IF loopInfo[L].blocks = <<>> THEN NULL ELSE loopInfo[L].blocks[1]

\* L->getSubLoops()
getSubLoops(L) == loopInfo[L].sub

\* BB->getTerminator()
getTerminator(I, b) == I[b][Len(I[b])]

\* L->getExitingBlock(): the block of L with a successor outside L when there
\* is exactly one such block, NULL otherwise
getExitingBlock(I, L) ==
  LET ex == {b \in BlocksOf(L) :
               \E s \in Range(getTerminator(I, b).succs) : s \notin BlocksOf(L)}
  IN IF Cardinality(ex) = 1 THEN CHOOSE b \in ex : TRUE ELSE NULL

\* BB->getFirstNonPHI()
getFirstNonPHI(I, b) ==
  I[b][CHOOSE j \in DOMAIN I[b] :
         I[b][j].kind # "phi" /\ \A k \in 1..(j - 1) : I[b][k].kind = "phi"]

\* dyn_cast<BranchInst>(t) succeeds
isaBranchInst(t) == t.kind \in {"br", "condbr"}

\* br->isConditional()
isConditional(t) == t.kind = "condbr"

\* Barrier::Create(InsertBefore): a new marker immediately before the given
\* instruction of block b
Create(I, b, InsertBefore, id) ==
  LET p == CHOOSE j \in DOMAIN I[b] : I[b][j].id = InsertBefore.id
  IN [I EXCEPT ![b] = SubSeq(@, 1, p - 1) \o <<Barrier(id)>> \o SubSeq(@, p, Len(@))]

\* Workgroup::isKernelToProcess(F)
isKernelToProcess == isKernel

\* VariableUniformityAnalysis::isUniform(f, block) and isUniform(f, value)
isUniformBlock(b) == b \in uniformB
isUniformValue(v) == v \in uniformV

\* getAnalysisUsage: addRequired / addPreserved
Analyses == {"DominatorTree", "VariableUniformityAnalysis"}
getAnalysisUsage_UniformityNotPreserved ==
  [required |-> Analyses, preserved |-> {"DominatorTree"}]

getAnalysisUsage == [required |-> Analyses, preserved |-> Analyses]

Res(r, I, lg) == [ret |-> r, ir |-> I, log |-> lg]

\* ---- the pass ----
\* The two Create calls, the second one at the front of the entry block
InsertBarriers_AtFront(I, brexit, loopEntry, n) ==
  LET I1 == Create(I, brexit, getTerminator(I, brexit), n)
  IN Create(I1, loopEntry, I1[loopEntry][1], n + 1)

\* The two Barrier::Create calls of the success path
InsertBarriers(I, brexit, loopEntry, n) ==
  LET I1 == Create(I, brexit, getTerminator(I, brexit), n)
  IN Create(I1, loopEntry, getFirstNonPHI(I1, loopEntry), n + 1)

\* L->getSubLoops().size() > 0
HasSubLoops_OffByOne(L) == Cardinality(getSubLoops(L)) > 1

HasSubLoops(L) == Cardinality(getSubLoops(L)) > 0

\* AddInnerLoopBarrier without the check of the loop entry's uniformity
AddInnerLoopBarrier_NoEntryCheck(L, I, n) ==
  IF HasSubLoops(L)
  THEN Res("false", I, <<"getSubLoops">>)
  ELSE
  LET brexit == getExitingBlock(I, L) IN
  IF brexit = NULL
  THEN Res("false", I, <<"getSubLoops", "getExitingBlock">>)
  ELSE
  LET loopEntry == getHeader(L)
      lg3 == <<"getSubLoops", "getExitingBlock", "getHeader">> IN
  IF loopEntry = NULL
  THEN Res("false", I, lg3)
  ELSE
  LET br == getTerminator(I, brexit)
      lg5 == lg3 \o <<"getTerminator">> IN
  IF isaBranchInst(br) /\ isConditional(br)
  THEN IF isUniformValue(br.cond)
       THEN Res("true", InsertBarriers(I, brexit, loopEntry, n),
                lg5 \o <<"isUniformValue", "Create", "Create">>)
       ELSE Res("false", I, lg5 \o <<"isUniformValue">>)
  ELSE Res("false", I, lg5)

\* AddInnerLoopBarrier creating the exit marker before the condition's
\* uniformity is known
AddInnerLoopBarrier_EarlyCreate(L, I, n) ==
  IF HasSubLoops(L)
  THEN Res("false", I, <<"getSubLoops">>)
  ELSE
  LET brexit == getExitingBlock(I, L) IN
  IF brexit = NULL
  THEN Res("false", I, <<"getSubLoops", "getExitingBlock">>)
  ELSE
  LET loopEntry == getHeader(L)
      lg3 == <<"getSubLoops", "getExitingBlock", "getHeader">> IN
  IF loopEntry = NULL
  THEN Res("false", I, lg3)
  ELSE IF ~isUniformBlock(loopEntry)
  THEN Res("false", I, lg3 \o <<"isUniformBlock">>)
  ELSE
  LET br == getTerminator(I, brexit)
      lg5 == lg3 \o <<"isUniformBlock", "getTerminator">> IN
  IF isaBranchInst(br) /\ isConditional(br)
  THEN LET I1 == Create(I, brexit, br, n) IN
       IF isUniformValue(br.cond)
       THEN Res("true", Create(I1, loopEntry, getFirstNonPHI(I1, loopEntry), n + 1),
                lg5 \o <<"Create", "isUniformValue", "Create">>)
       ELSE Res("false", I1, lg5 \o <<"Create", "isUniformValue">>)
  ELSE Res("false", I, lg5)

\* AddInnerLoopBarrier asking for the exit condition before the loop entry
AddInnerLoopBarrier_CondFirst(L, I, n) ==
  IF HasSubLoops(L)
  THEN Res("false", I, <<"getSubLoops">>)
  ELSE
  LET brexit == getExitingBlock(I, L) IN
  IF brexit = NULL
  THEN Res("false", I, <<"getSubLoops", "getExitingBlock">>)
  ELSE
  LET loopEntry == getHeader(L)
      lg3 == <<"getSubLoops", "getExitingBlock", "getHeader">> IN
  IF loopEntry = NULL
  THEN Res("false", I, lg3)
  ELSE
  LET br == getTerminator(I, brexit)
      lg4 == lg3 \o <<"getTerminator">> IN
  IF isaBranchInst(br) /\ isConditional(br)
  THEN IF isUniformValue(br.cond)
       THEN IF isUniformBlock(loopEntry)
            THEN Res("true", InsertBarriers(I, brexit, loopEntry, n),
                     lg4 \o <<"isUniformValue", "isUniformBlock", "Create", "Create">>)
            ELSE Res("false", I, lg4 \o <<"isUniformValue", "isUniformBlock">>)
       ELSE Res("false", I, lg4 \o <<"isUniformValue">>)
  ELSE Res("false", I, lg4)

\* AddInnerLoopBarrier: each check that is evaluated is entered in the log
AddInnerLoopBarrier(L, I, n) ==
  IF HasSubLoops(L)
  THEN Res("false", I, <<"getSubLoops">>)
  ELSE
  LET brexit == getExitingBlock(I, L) IN
  IF brexit = NULL
  THEN Res("false", I, <<"getSubLoops", "getExitingBlock">>)
  ELSE
  LET loopEntry == getHeader(L)
      lg3 == <<"getSubLoops", "getExitingBlock", "getHeader">> IN
  IF loopEntry = NULL
  THEN Res("false", I, lg3)
  ELSE IF ~isUniformBlock(loopEntry)
  THEN Res("false", I, lg3 \o <<"isUniformBlock">>)
  ELSE
  LET br == getTerminator(I, brexit)
      lg5 == lg3 \o <<"isUniformBlock", "getTerminator">> IN
  IF isaBranchInst(br) /\ isConditional(br)
  THEN IF isUniformValue(br.cond)
       THEN Res("true", InsertBarriers(I, brexit, loopEntry, n),
                lg5 \o <<"isUniformValue", "Create", "Create">>)
       ELSE Res("false", I, lg5 \o <<"isUniformValue">>)
  ELSE Res("false", I, lg5)

\* A scan whose outcome is dropped
isBLoop_Ignored(L, I) == FALSE

\* The scan of ProcessLoop: some instruction of some block of L is a Barrier
isBLoop(L, I) ==
  \E b \in BlocksOf(L) : \E j \in DOMAIN I[b] : isaBarrier(I[b][j])

Prepend(e, r) == [r EXCEPT !.log = <<e>> \o @]

ProcessLoop(L, I, n) ==
  IF isBLoop(L, I)
  THEN Res("false", I, <<"isaBarrier">>)
  ELSE Prepend("isaBarrier", AddInnerLoopBarrier(L, I, n))

\* What the dereference L->getHeader()->getParent() can do: defined when the
\* loop has a header; with a NULL header the behaviour is undefined and the
\* build either faults or goes on with an arbitrary classifier answer.
Deref(L) ==
  IF getHeader(L) # NULL THEN {"defined"} ELSE {"fault", "kernel", "other"}

\* runOnLoop consulting the classifier only after ProcessLoop has run
runOnLoop_ProcessFirst(L, I, n, ub) ==
  LET r == ProcessLoop(L, I, n) IN
  IF ub = "fault"
  THEN Res("fault", I, <<"isKernelToProcess">>)
  ELSE IF ~(IF ub = "defined" THEN isKernelToProcess ELSE ub = "kernel")
  THEN Res("false", r.ir, r.log \o <<"isKernelToProcess">>)
  ELSE Res(r.ret, r.ir, r.log \o <<"isKernelToProcess">>)

runOnLoop(L, I, n, ub) ==
  IF ub = "fault"
  THEN Res("fault", I, <<"isKernelToProcess">>)
  ELSE IF ~(IF ub = "defined" THEN isKernelToProcess ELSE ub = "kernel")
  THEN Res("false", I, <<"isKernelToProcess">>)
  ELSE Prepend("isKernelToProcess", ProcessLoop(L, I, n))

\* ---- the driver ----
\* Identities of the markers of J that I does not hold
IdsOf(I) == UNION {{I[b][j].id : j \in 1..Len(I[b])} : b \in DOMAIN I}

NewMarkers(I, J) == IdsOf(J) \ IdsOf(I)

Init ==
  \E sh \in Shapes, nPhi \in 0..MaxPhi, nOps \in 0..MaxOps :
  \E pre \in {NULL} \cup DOMAIN sh.succ, tk \in [TwoWay(sh) -> {"condbr", "switch"}] :
  \E k \in BOOLEAN, ub \in SUBSET Headers(sh) :
  \E uv \in SUBSET {b \in TwoWay(sh) : tk[b] = "condbr"} :
    /\ ir = [b \in DOMAIN sh.succ |-> MkBlock(sh, b, nPhi, nOps, pre, tk)]
    /\ loopInfo = sh.loops
    /\ isKernel = k
    /\ uniformB = ub
    /\ uniformV = uv
    /\ valid = getAnalysisUsage.required
    /\ nextId = 100
    /\ calls = 0
    /\ lastL = NULL
    /\ result = "none"
    /\ log = <<>>
    /\ before = ir
    /\ inserted = {}
    /\ phase = "compile"
    /\ wi = [w \in 1..NumWI |-> [pc |-> 1, iter |-> 0, cnt |-> <<>>]]
    /\ cur = 1
    /\ shared = <<>>

\* The loop pass manager calls runOnLoop on a loop of the function; after a
\* call that reports a change it keeps only the analyses declared preserved.
\* A fault ends the compilation.
RunOnLoop(L) ==
  /\ phase = "compile"
  /\ calls < MaxCalls
  /\ \E ub \in Deref(L) :
       LET r == runOnLoop(L, ir, nextId, ub) IN
       /\ ir' = r.ir
       /\ result' = r.ret
       /\ log' = r.log
       /\ inserted' = inserted \cup {[id |-> m, loop |-> L] : m \in NewMarkers(ir, r.ir)}
       /\ nextId' = nextId + Cardinality(NewMarkers(ir, r.ir))
       /\ valid' = IF r.ret = "true" THEN valid \cap getAnalysisUsage.preserved ELSE valid
       /\ phase' = IF r.ret = "fault" THEN "aborted" ELSE phase
  /\ before' = ir
  /\ lastL' = L
  /\ calls' = calls + 1
  /\ UNCHANGED <<loopInfo, isKernel, uniformB, uniformV, wi, cur, shared>>

Next == \E L \in DOMAIN loopInfo : RunOnLoop(L)

Spec == Init /\ [][Next]_vars

\* ---- execution of the compiled function by one work-group ----
\* The loop the pass has put its markers in
Transformed == CHOOSE l \in DOMAIN loopInfo : \E m \in inserted : m.loop = l

TwoWayBlocks == {b \in DOMAIN ir : Len(getTerminator(ir, b).succs) = 2}

\* The analysis answers are honest about the entry of the loop: every
\* two-way terminator outside the loop is a branch on a uniform condition,
\* so all work-items arrive at the loop header together.
EntryIsUniform(L) ==
  \A b \in TwoWayBlocks \ BlocksOf(L) :
    getTerminator(ir, b).kind = "condbr" /\ getTerminator(ir, b).cond \in uniformV

Launch ==
  /\ phase = "compile"
  /\ inserted # {}
  /\ EntryIsUniform(Transformed)
  /\ phase' = "run"
  /\ wi' = [w \in 1..NumWI |->
              [pc |-> 1, iter |-> 0, cnt |-> [m \in {x.id : x \in inserted} |-> 0]]]
  /\ cur' = 1
  /\ shared' = [k \in (DOMAIN ir) \X (0..MaxIter) |-> 0]
  /\ UNCHANGED <<ir, loopInfo, isKernel, uniformB, uniformV, valid, nextId, calls,
                 lastL, result, log, before, inserted>>

\* Work-item cur executes its current block: every marker of the block once,
\* then the terminator.  A condition reported uniform has one value for the
\* whole group at a given iteration of the loop; any other two-way
\* terminator is decided by the work-item alone.  Work-items run one after
\* the other (they share nothing but the uniform values).
Step ==
  /\ phase = "run"
  /\ cur <= NumWI
  /\ LET w == cur
         b == wi[w].pc
         it == IF b = getHeader(Transformed) THEN wi[w].iter + 1 ELSE wi[w].iter
         t == getTerminator(ir, b)
         here == {ir[b][j].id : j \in 1..Len(ir[b])}
         cnt2 == [m \in DOMAIN wi[w].cnt |->
                    wi[w].cnt[m] + (IF m \in here THEN 1 ELSE 0)]
         go(s) == wi' = [wi EXCEPT ![w] = [pc |-> s, iter |-> it, cnt |-> cnt2]]
     IN
     IF it > MaxIter
     THEN /\ wi' = [wi EXCEPT ![w].pc = -1]
          /\ cur' = cur + 1
          /\ UNCHANGED shared
     ELSE IF Len(t.succs) = 0
     THEN /\ go(NULL)
          /\ cur' = cur + 1
          /\ UNCHANGED shared
     ELSE IF Len(t.succs) = 1
     THEN /\ go(t.succs[1])
          /\ UNCHANGED <<cur, shared>>
     ELSE \E d \in 1..2 :
          /\ go(t.succs[d])
          /\ UNCHANGED cur
          /\ IF t.kind = "condbr" /\ t.cond \in uniformV
             THEN /\ shared[<<b, it>>] \in {0, d}
                  /\ shared' = [shared EXCEPT ![<<b, it>>] = d]
             ELSE UNCHANGED shared
  /\ UNCHANGED <<ir, loopInfo, isKernel, uniformB, uniformV, valid, nextId, calls,
                 lastL, result, log, before, inserted, phase>>

NextExec == Next \/ Launch \/ Step

SpecExec == Init /\ [][NextExec]_vars

AllDone == phase = "run" /\ \A w \in 1..NumWI : wi[w].pc = NULL

\* ---- claims ----
\* Vocabulary of the claims, read off the state directly.
Called == lastL # NULL

HeaderOf(L) == IF Len(loopInfo[L].blocks) = 0 THEN NULL ELSE Head(loopInfo[L].blocks)

MembersOf(L) == {loopInfo[L].blocks[i] : i \in 1..Len(loopInfo[L].blocks)}

LastOf(I, b) == I[b][Len(I[b])]

ExitingBlocksOf(I, L) ==
  {b \in MembersOf(L) : \E i \in 1..Len(LastOf(I, b).succs) :
                          LastOf(I, b).succs[i] \notin MembersOf(L)}

HasMarker(I, L) ==
  \E b \in MembersOf(L) : \E j \in 1..Len(I[b]) : I[b][j].kind = "barrier"

Innermost(L) == loopInfo[L].sub = {}

StructurallyEligible(I, L) ==
  /\ HeaderOf(L) # NULL
  /\ isKernel
  /\ ~HasMarker(I, L)
  /\ Innermost(L)
  /\ Cardinality(ExitingBlocksOf(I, L)) = 1

ExitIsUniformCondBranch(I, L) ==
  \A b \in ExitingBlocksOf(I, L) :
    LastOf(I, b).kind = "condbr" /\ LastOf(I, b).cond \in uniformV

Added == IdsOf(ir) \ IdsOf(before)

Without(q, ids) == SelectSeq(q, LAMBDA x : x.id \notin ids)

\* C1: a call returns true exactly when the function is a target, the loop
\* holds no marker, has no sub-loop, has one exiting block and a header, the
\* header is uniform, and the exiting block ends in a conditional branch on
\* a uniform condition.
SucceedsIffEligibleAndUniform ==
  Called =>
    (result = "true" <=>
       /\ StructurallyEligible(before, lastL)
       /\ HeaderOf(lastL) \in uniformB
       /\ ExitIsUniformCondBranch(before, lastL))

SucceedsWitness == Called /\ result = "true"

\* C2: after the transform of a loop with uniform header and uniform exit
\* condition, every work-item of the group executes each inserted marker the
\* same number of times.
BarriersCannotDiverge ==
  AllDone =>
    \A m \in {x.id : x \in inserted} : \A v, w \in 1..NumWI : wi[v].cnt[m] = wi[w].cnt[m]

\* C3: a call that returns true has added exactly two markers, one right
\* after the phis of the header and one right before the terminator of the
\* exiting block, and has left every other instruction where it was.
TwoMarkersAtStatedPositions ==
  (Called /\ result = "true") =>
    LET h == HeaderOf(lastL)
        e == CHOOSE b \in ExitingBlocksOf(before, lastL) : TRUE
    IN /\ Cardinality(Added) = 2
       /\ \A b \in DOMAIN ir : \A j \in 1..Len(ir[b]) :
            ir[b][j].id \in Added => ir[b][j] = Barrier(ir[b][j].id)
       /\ \E p \in 1..Len(ir[h]) :
            /\ ir[h][p].id \in Added
            /\ \A k \in 1..Len(ir[h]) : (ir[h][k].kind = "phi") <=> (k < p)
            /\ ir[e][Len(ir[e]) - 1].id \in Added
            /\ ir[e][Len(ir[e]) - 1].id # ir[h][p].id
       /\ DOMAIN ir = DOMAIN before
       /\ \A b \in DOMAIN ir : Without(ir[b], Added) = before[b]

\* the header is the exiting block and held only phis and its terminator
SingleBlockPhiOnlyWitness ==
  /\ Called
  /\ result = "true"
  /\ ExitingBlocksOf(before, lastL) = {HeaderOf(lastL)}
  /\ Len(before[HeaderOf(lastL)]) >= 2
  /\ \A k \in 1..(Len(before[HeaderOf(lastL)]) - 1) : before[HeaderOf(lastL)][k].kind = "phi"

\* C4: a call that returns false leaves instructions and CFG as they were,
\* and no call adds exactly one marker.
FailureLeavesFunctionUnchanged ==
  Called =>
    /\ result = "false" => ir = before
    /\ Cardinality(Added) # 1

\* a failure decided last of all, by the condition not being uniform
LateFailureWitness ==
  /\ Called
  /\ result = "false"
  /\ StructurallyEligible(before, lastL)
  /\ HeaderOf(lastL) \in uniformB
  /\ \E b \in ExitingBlocksOf(before, lastL) :
       LastOf(before, b).kind = "condbr" /\ LastOf(before, b).cond \notin uniformV

\* C5: no loop ever receives more than one pair of markers, and a call on a
\* loop that holds a marker returns false and adds nothing.
AtMostOnePairPerLoop ==
  /\ \A L \in DOMAIN loopInfo : Cardinality({m \in inserted : m.loop = L}) <= 2
  /\ (Called /\ HasMarker(before, lastL)) => (result = "false" /\ ir = before)

\* the loop transformed by an earlier call is called again, with the same
\* uniformity answers
SecondCallWitness ==
  /\ Called
  /\ calls >= 2
  /\ result = "false"
  /\ \E m \in inserted : m.loop = lastL

\* C6: a call on a loop without header returns false, changes nothing and
\* does not abort the compilation.
HeaderlessLoopIsNoOp ==
  (Called /\ HeaderOf(lastL) = NULL) =>
    (result = "false" /\ ir = before /\ phase # "aborted")

\* C7: a call on a loop with sub-loops returns false and changes nothing;
\* every marker the pass created lies in the header or the exiting block of
\* an innermost loop.
OnlyInnermostLoopsGetMarkers ==
  /\ (Called /\ ~Innermost(lastL)) => (result = "false" /\ ir = before)
  /\ \A m \in inserted :
       /\ Innermost(m.loop)
       /\ \E b \in {HeaderOf(m.loop)} \cup ExitingBlocksOf(ir, m.loop) :
            \E j \in 1..Len(ir[b]) : ir[b][j].id = m.id

\* the outer loop is called after the inner loop has received its markers
OuterAfterInnerWitness ==
  /\ Called
  /\ ~Innermost(lastL)
  /\ \E m \in inserted : m.loop \in loopInfo[lastL].sub

\* C8: in a function that is not a target the call returns false having
\* consulted the classifier only.
NonTargetEvaluatesNothingElse ==
  (Called /\ HeaderOf(lastL) # NULL /\ ~isKernel) =>
    (result = "false" /\ log = <<"isKernelToProcess">> /\ ir = before)

\* a loop that would be transformed were its function a target
NonTargetWitness ==
  /\ Called
  /\ ~isKernel
  /\ HeaderOf(lastL) # NULL
  /\ ~HasMarker(before, lastL)
  /\ Innermost(lastL)
  /\ Cardinality(ExitingBlocksOf(before, lastL)) = 1
  /\ HeaderOf(lastL) \in uniformB
  /\ ExitIsUniformCondBranch(before, lastL)

\* C9: a successful call leaves the uniformity analysis valid with its
\* answers as they were; every terminator (CFG edges and condition) is the
\* one the answers were computed for, and the added markers have no operand
\* and no successor.
UniformityFactsPreserved ==
  (Called /\ result = "true") =>
    /\ "VariableUniformityAnalysis" \in valid
    /\ \A b \in DOMAIN before : LastOf(ir, b) = LastOf(before, b)
    /\ \A b \in DOMAIN ir : \A j \in 1..Len(ir[b]) :
         ir[b][j].id \in Added => (ir[b][j].cond = NULL /\ ir[b][j].succs = <<>>)
    /\ uniformB \subseteq DOMAIN ir
    /\ \A v \in uniformV : LastOf(ir, v).cond = v

\* a successful call in a function with at least one uniform block and value
FactsWitness ==
  /\ Called
  /\ result = "true"
  /\ uniformB # {}
  /\ uniformV # {}
  /\ Added # {}

\* C10: the checks of one call are evaluated in the fixed order and end at
\* the first one that fails; the condition is asked for only after the
\* header was found uniform and the terminator a conditional branch.
CheckOrder ==
  <<"isKernelToProcess", "isaBarrier", "getSubLoops", "getExitingBlock", "getHeader",
    "isUniformBlock", "getTerminator", "isUniformValue">>

Passes(I, L, k) ==
  CASE k = 1 -> isKernel
    [] k = 2 -> ~HasMarker(I, L)
    [] k = 3 -> Innermost(L)
    [] k = 4 -> Cardinality(ExitingBlocksOf(I, L)) = 1
    [] k = 5 -> HeaderOf(L) # NULL
    [] k = 6 -> HeaderOf(L) \in uniformB
    [] k = 7 -> \A b \in ExitingBlocksOf(I, L) : LastOf(I, b).kind = "condbr"
    [] k = 8 -> \A b \in ExitingBlocksOf(I, L) : LastOf(I, b).cond \in uniformV

Logged(e) == \E i \in 1..Len(log) : log[i] = e

ChecksInOrderStopAtFirstFailure ==
  Called =>
    /\ \A i \in 1..Len(log) :
         IF i <= Len(CheckOrder) THEN log[i] = CheckOrder[i] ELSE log[i] = "Create"
    /\ HeaderOf(lastL) # NULL =>
         \A k \in 1..Len(CheckOrder) :
           Logged(CheckOrder[k]) <=> \A j \in 1..(k - 1) : Passes(before, lastL, j)
    /\ Logged("isUniformBlock") => StructurallyEligible(before, lastL)
    /\ (Logged("getTerminator") /\ ~Passes(before, lastL, 7)) =>
         (result = "false" /\ ~Logged("isUniformValue") /\ ir = before)

\* the exiting block ends in an unconditional branch and the header is uniform
UnconditionalExitWitness ==
  /\ Called
  /\ Logged("getTerminator")
  /\ \E b \in ExitingBlocksOf(before, lastL) : LastOf(before, b).kind = "br"

====
